---- MODULE Spec2Model ----
(***************************************************************************)
(* Ledger operations of the MBA_Project bank applications.                 *)
(*                                                                         *)
(* Three implementations of deposit / withdraw / transfer live in the      *)
(* repository, each against its own database schema:                       *)
(*   "AccountOperations"  no_solid_app/helpers/account_operations.py       *)
(*   "Facade"             no_solid_app/main.py -> helpers/facade.py        *)
(*   "Commands"           solid_app/main.py -> helpers/commands.py,        *)
(*                        helpers/proxies.py                               *)
(* A behaviour runs one of them (impl is chosen in Init and never changes).*)
(*                                                                         *)
(* The committed database (balance, log) is shared by all requests.  Each  *)
(* request works on its own SQLAlchemy session: a SELECT copies the        *)
(* committed balance into the session (loadedFrom / loadedTo), Python      *)
(* arithmetic is done on that copy, and session.commit() writes the copy   *)
(* back together with the rows added to the session.  No request takes a   *)
(* lock, so the steps of two requests interleave at statement boundaries.  *)
(* Requests are served by a pool of workers; a request goes to the lowest  *)
(* free worker.  With one worker the requests run one after the other.     *)
(* returned holds the response a step sends, if it sends one; completed   *)
(* is the bag of the calls that returned OK.                               *)
(* A step is one database statement together with the Python code that    *)
(* follows it up to the next statement; the refresh that follows a commit  *)
(* belongs to the step of the commit.  clock is the reading of             *)
(* datetime.now(); a Transaction gets its timestamp when it is             *)
(* constructed, which is before the commit that inserts it.                *)
(* Commits succeed in Spec, SeqSpec and TransferSpec; FaultSpec adds the   *)
(* commit that raises.                                                     *)
(* Amounts and balances are integers (smallest currency unit).             *)
(***************************************************************************)
EXTENDS Integers, Sequences, FiniteSets, Bags, TLC

\* ---------------------------------------------------------------- bounds
MaxCalls == 2
MaxAmount == 1
\* successful logins of a run
MaxLogins == 2
\* half days that pass in a run
MaxTicks == 3
Procs == {1, 2}

\* ------------------------------------------------------------- constants
None == "none"
Impls == {"AccountOperations", "Facade", "Commands"}
Accounts == {"A", "B"}
AccountIds == Accounts \cup {"X"}
AccountTypes == {"CHECKING", "SAVINGS"}
AccountStatuses == {"ACTIVE", "BLOCKED", "CLOSED"}
Amounts == {-1} \cup (1 .. MaxAmount)
\* limit of get_transaction_history: one row, and the default
Limits == {1, 10}

\* get_features()["minimum_balance"] of the two account factories
MinimumBalance(type) == IF type = "SAVINGS" THEN 100 ELSE 0

\* account rows as the provisioning code leaves them: the no_solid factories
\* open CHECKING at 0 and SAVINGS at its minimum balance; solid_app opens
\* every account at 0 and its default account type is checking
AccountTypeOf(i) ==
    [a \in Accounts |-> IF a = "B" /\ i # "Commands" THEN "SAVINGS" ELSE "CHECKING"]
OpeningBalance(i) ==
    [a \in Accounts |-> IF i = "Commands" THEN 0 ELSE MinimumBalance(AccountTypeOf(i)[a])]
\* every factory creates its account ACTIVE
CreatedStatus == [a \in Accounts |-> "ACTIVE"]
\* the status column is stored with each row; no operation writes it, so a
\* row is BLOCKED or CLOSED only when it was stored that way
StoredStatuses ==
    { [a \in Accounts |-> "ACTIVE"],
      [a \in Accounts |-> IF a = "A" THEN "BLOCKED" ELSE "CLOSED"] }

\* AccountProxy objects, the classes of helpers/singleton.py and
\* helpers/facade.py that derive from Singleton, and the rows of the users
\* table ("mallory" has no row)
Proxies == {"proxy1", "proxy2"}
Classes == {"AuthenticationManager", "UserCreator", "AccountCreator", "TransactionFacade"}
Usernames == {"alice", "bob"}
UsernameInputs == Usernames \cup {"mallory"}

VARIABLES impl, workers, status, balance, log, procs, calls, completed, returned,
          clock, access_log, instance, objects, active_sessions, sessions, issued

\* the Python objects of the process and the sessions table; issued is the
\* list of the logins that succeeded, as their callers saw them
appVars == <<access_log, instance, objects, active_sessions, sessions, issued>>

vars == <<impl, workers, status, balance, log, procs, calls, completed, returned,
          clock, appVars>>

\* a process in which no proxy has been called, no Singleton class has been
\* instantiated and nobody has logged in
\* a Python dict: the keys it holds are its domain
EmptyDict == [k \in {} |-> None]
Put(d, k, v) == [x \in DOMAIN d \cup {k} |-> IF x = k THEN v ELSE d[x]]
Del(d, k) == [x \in DOMAIN d \ {k} |-> d[x]]

\* instance: the classes that carry an _instance of their own, each with the
\* object (an index of objects) it holds; active_sessions: the dict of the
\* AuthenticationManager object; sessions: the rows of SessionModel;
\* issued: the successful logins in the order they happened
ProcessStart ==
    /\ access_log = [x \in Proxies |-> <<>>]
    /\ instance = EmptyDict
    /\ objects = <<>>
    /\ active_sessions = EmptyDict
    /\ sessions = {}
    /\ issued = <<>>

IdleProc ==
    [pc |-> "idle", op |-> None, from |-> None, to |-> None, amount |-> 0,
     loadedFrom |-> 0, loadedTo |-> 0, timestamp |-> 0, effects |-> {}]

Database ==
    /\ impl \in Impls
    /\ balance = OpeningBalance(impl)
    /\ log = <<>>
    /\ procs = [p \in Procs |-> IdleProc]
    /\ calls = 0
    /\ completed = EmptyBag
    /\ returned = {}
    /\ clock = 0
    /\ ProcessStart

\* every worker of the pool serves requests, on accounts as the factories
\* create them
Init == Database /\ workers = Procs /\ status = CreatedStatus

\* a single worker, on accounts of any stored status
SeqInit == Database /\ workers = {1} /\ status \in StoredStatuses

\* ------------------------------------------------------------- helpers
Exists(id) == id \in Accounts

\* session.commit(): the UPDATE carries a column only when its value differs
\* from the value the session loaded
Flush(bal, id, loaded, new) ==
    IF new = loaded THEN bal ELSE [bal EXCEPT ![id] = new]

\* what a commit made durable, for the bookkeeping in procs and returned
Wrote(tag, loaded, new) == IF new = loaded THEN {} ELSE {tag}

TransactionRecord(type, from, to, amount, timestamp) ==
    [type |-> type, amount |-> amount, from_account_id |-> from,
     to_account_id |-> to, status |-> "COMPLETED", timestamp |-> timestamp]

\* a response: bal is the set holding the balance it carries, if it has
\* one; transactions is the list a history query returns
Entry(r, result, effects, bal) ==
    [op |-> r.op, from |-> r.from, to |-> r.to, amount |-> r.amount,
     result |-> result, effects |-> r.effects \cup effects, balance |-> bal,
     transactions |-> <<>>]

\* a request arrives at process p (the caller's arguments)
Request(op, from, to, amount) ==
    [IdleProc EXCEPT !.pc = "start", !.op = op, !.from = from, !.to = to,
                     !.amount = amount]

Arrive(p) ==
    /\ p \in workers
    /\ procs[p].pc = "idle"
    /\ \A q \in workers : q < p => procs[q].pc # "idle"
    /\ calls < MaxCalls
    /\ calls' = calls + 1
    /\ UNCHANGED <<appVars, impl, workers, status>>

\* a request that has to wait for the rows another request has read: its
\* SELECT of the destination blocks while that row is held
ContinueHoldingRows(p, pc, op) ==
    /\ procs[p].pc = pc
    /\ procs[p].op = op
    /\ pc = "read_to" =>
          \A q \in Procs \ {p} :
              procs[q].pc # "idle" => procs[p].to # procs[q].from
    /\ UNCHANGED <<appVars, impl, workers, status, calls>>

\* the next statement of the request in flight at p; nothing waits
Continue(p, pc, op) ==
    /\ procs[p].pc = pc
    /\ procs[p].op = op
    /\ UNCHANGED <<appVars, impl, workers, status, calls>>

\* the request r of p returns `result` to its caller
Respond(p, r, result, effects, bal) ==
    /\ returned' = {Entry(r, result, effects, bal)}
    /\ completed' = IF result = "OK"
                    THEN completed (+) SetToBag({Entry(r, result, effects, bal)})
                    ELSE completed
    /\ procs' = [procs EXCEPT ![p] = IdleProc]
    /\ UNCHANGED clock

Return(p, r, result, effects) == Respond(p, r, result, effects, {})

\* a rejection that leaves a REJECTED record behind when funds are short
RejectRecorded(p, r, reason) ==
    /\ Return(p, r, reason, {})
    /\ log' = IF reason = "InsufficientFunds"
              THEN Append(log, [TransactionRecord("REJECTED", r.from, r.to, r.amount, clock)
                                   EXCEPT !.status = "REJECTED"])
              ELSE log
    /\ UNCHANGED balance

\* raise HTTPException / ValueError: the session is dropped, nothing is written
Reject(p, r, reason) ==
    /\ Return(p, r, reason, {})
    /\ UNCHANGED <<balance, log>>

\* a read-only request that writes an INQUIRY record of itself
AnswerRecorded(p, r, result, bal, txs) ==
    /\ returned' = {[Entry(r, result, {}, bal) EXCEPT !.transactions = txs]}
    /\ log' = Append(log, TransactionRecord("INQUIRY", r.from, None, 0, clock))
    /\ UNCHANGED <<balance, procs, completed, clock>>

\* a read-only request answers in the step of its SELECTs
Answer(p, r, result, bal, txs) ==
    /\ returned' = {[Entry(r, result, {}, bal) EXCEPT !.transactions = txs]}
    /\ UNCHANGED <<balance, log, procs, completed, clock>>

\* the SELECTs are done; r carries what they loaded
Loaded(p, r, pc) ==
    /\ procs' = [procs EXCEPT ![p] = [r EXCEPT !.pc = pc]]
    /\ returned' = {}
    /\ UNCHANGED <<balance, log, completed, clock>>

\* the SELECTs are done and Transaction(...) is constructed: its timestamp
\* is default_factory=datetime.now
Staged(p, r, pc) ==
    /\ procs' = [procs EXCEPT ![p] = [r EXCEPT !.pc = pc, !.timestamp = clock]]
    /\ clock' = clock + 1
    /\ returned' = {}
    /\ UNCHANGED <<balance, log, completed>>

\* --------------------------------------------------------- queries
Remove(rows, m) == SubSeq(rows, 1, m - 1) \o SubSeq(rows, m + 1, Len(rows))

\* ORDER BY timestamp [DESC], and list.sort(key=timestamp, reverse=desc):
\* rows with equal timestamps keep their order
RECURSIVE OrderBy(_, _)
OrderBy(rows, desc) ==
    IF rows = <<>> THEN <<>>
    ELSE LET k(i) == IF desc THEN 0 - rows[i].timestamp ELSE rows[i].timestamp
             m == CHOOSE i \in DOMAIN rows :
                     \A j \in DOMAIN rows : k(i) < k(j) \/ (k(i) = k(j) /\ i <= j)
         IN  <<rows[m]>> \o OrderBy(Remove(rows, m), desc)

\* .limit(n), and list[:n]
Limit(rows, n) == SubSeq(rows, 1, IF n < Len(rows) THEN n ELSE Len(rows))

Incoming(a) == SelectSeq(log, LAMBDA t : t.to_account_id = a)
Outgoing(a) == SelectSeq(log, LAMBDA t : t.from_account_id = a)

\* transaction_facade.get_transaction_history(account_id, limit)
TransactionHistory(a, limit) ==
    Limit(OrderBy(Limit(OrderBy(Incoming(a), TRUE), limit)
                  \o Limit(OrderBy(Outgoing(a), TRUE), limit), TRUE), limit)

\* facade.get_account_transactions: Transaction.account_id == account.id,
\* no ORDER BY (rows come in insertion order).  account_id holds the account
\* of a deposit or withdrawal and the source of a transfer.
AccountTransactions(a) ==
    SelectSeq(log, LAMBDA t : a = IF t.type = "DEPOSIT" THEN t.to_account_id
                                   ELSE t.from_account_id)

\* GetTransactionsCommand: from_account_id == id OR to_account_id == id,
\* ORDER BY timestamp
GetTransactions(a) ==
    OrderBy(SelectSeq(log, LAMBDA t : t.from_account_id = a \/ t.to_account_id = a), FALSE)

\* ------------------------------------------------ single-commit bodies
\* account.balance += amount; session.add(transaction); session.commit()
DepositWrite(p) ==
    LET r == procs[p] IN
    /\ balance' = Flush(balance, r.to, r.loadedTo, r.loadedTo + r.amount)
    /\ log' = Append(log, TransactionRecord("DEPOSIT", None, r.to, r.amount, r.timestamp))

DepositEffects(r) == Wrote("credit", r.loadedTo, r.loadedTo + r.amount) \cup {"log"}

\* account.balance -= amount; session.add(transaction); session.commit()
WithdrawWrite(p) ==
    LET r == procs[p] IN
    /\ balance' = Flush(balance, r.from, r.loadedFrom, r.loadedFrom - r.amount)
    /\ log' = Append(log, TransactionRecord("WITHDRAW", r.from, None, r.amount, r.timestamp))

WithdrawEffects(r) == Wrote("debit", r.loadedFrom, r.loadedFrom - r.amount) \cup {"log"}

\* from.balance -= amount; to.balance += amount; one INSERT; one commit.
\* With from = to both statements act on one object, whose value ends
\* where it started.
TransferWrite(p) ==
    LET r == procs[p] IN
    /\ balance' =
          IF r.from = r.to
          THEN Flush(balance, r.from, r.loadedFrom, (r.loadedFrom - r.amount) + r.amount)
          ELSE Flush(Flush(balance, r.from, r.loadedFrom, r.loadedFrom - r.amount),
                     r.to, r.loadedTo, r.loadedTo + r.amount)
    /\ log' = Append(log, TransactionRecord("TRANSFER", r.from, r.to, r.amount, r.timestamp))

TransferEffects(r) ==
    IF r.from = r.to THEN {"log"}
    ELSE Wrote("debit", r.loadedFrom, r.loadedFrom - r.amount)
         \cup Wrote("credit", r.loadedTo, r.loadedTo + r.amount)
         \cup {"log"}

\* AccountOperations: session.refresh(account) follows the commit and the
\* response carries the refreshed balance ("new_balance", "source_balance")
DepositCommit(p) ==
    /\ DepositWrite(p)
    /\ Respond(p, procs[p], "OK", DepositEffects(procs[p]), {balance'[procs[p].to]})

WithdrawCommit(p) ==
    /\ WithdrawWrite(p)
    /\ Respond(p, procs[p], "OK", WithdrawEffects(procs[p]), {balance'[procs[p].from]})

TransferCommit(p) ==
    /\ TransferWrite(p)
    /\ Respond(p, procs[p], "OK", TransferEffects(procs[p]), {balance'[procs[p].from]})

\* ----------------------------------------- AccountOperations (one commit)
OpsDepositRead(p) ==
    /\ impl = "AccountOperations" /\ Arrive(p)
    /\ \E a \in AccountIds, amt \in Amounts :
          LET r == Request("Deposit", None, a, amt) IN
          IF amt <= 0 THEN Reject(p, r, "InvalidArgument")
          ELSE IF ~Exists(a) THEN Reject(p, r, "NotFound")
          ELSE Staged(p, [r EXCEPT !.loadedTo = balance[a]], "commit")

OpsDepositCommit(p) ==
    /\ impl = "AccountOperations" /\ Continue(p, "commit", "Deposit")
    /\ DepositCommit(p)

OpsWithdrawRead(p) ==
    /\ impl = "AccountOperations" /\ Arrive(p)
    /\ \E a \in AccountIds, amt \in Amounts :
          LET r == Request("Withdraw", a, None, amt) IN
          IF amt <= 0 THEN Reject(p, r, "InvalidArgument")
          ELSE IF ~Exists(a) THEN Reject(p, r, "NotFound")
          ELSE IF balance[a] < amt THEN Reject(p, r, "InsufficientFunds")
          ELSE Staged(p, [r EXCEPT !.loadedFrom = balance[a]], "commit")

OpsWithdrawCommit(p) ==
    /\ impl = "AccountOperations" /\ Continue(p, "commit", "Withdraw")
    /\ WithdrawCommit(p)

OpsTransferReadFrom(p) ==
    /\ impl = "AccountOperations" /\ Arrive(p)
    /\ \E a \in AccountIds, b \in AccountIds, amt \in Amounts :
          LET r == Request("Transfer", a, b, amt) IN
          IF amt <= 0 THEN Reject(p, r, "InvalidArgument")
          ELSE IF ~Exists(a) THEN Reject(p, r, "NotFound")
          ELSE Loaded(p, [r EXCEPT !.loadedFrom = balance[a]], "read_to")

\* the second SELECT returns the object already in the identity map when
\* both ids name one row; the funds check follows both lookups
OpsTransferReadTo(p) ==
    LET r == procs[p] IN
    /\ impl = "AccountOperations" /\ Continue(p, "read_to", "Transfer")
    /\ IF ~Exists(r.to) THEN Reject(p, r, "NotFound")
       ELSE IF r.loadedFrom < r.amount THEN Reject(p, r, "InsufficientFunds")
       ELSE Staged(p, [r EXCEPT !.loadedTo =
                          IF r.to = r.from THEN r.loadedFrom ELSE balance[r.to]],
                   "commit")

OpsTransferCommit(p) ==
    /\ impl = "AccountOperations" /\ Continue(p, "commit", "Transfer")
    /\ TransferCommit(p)

\* get_account_by_uuid
OpsGetAccount(p) ==
    /\ impl = "AccountOperations" /\ Arrive(p)
    /\ \E a \in AccountIds :
          LET r == Request("GetBalance", a, None, 0) IN
          IF ~Exists(a) THEN Answer(p, r, "NotFound", {}, <<>>)
          ELSE Answer(p, r, "OK", {balance[a]}, <<>>)

OpsGetHistory(p) ==
    /\ impl = "AccountOperations" /\ Arrive(p)
    /\ \E a \in AccountIds, limit \in Limits :
          LET r == Request("GetHistory", a, None, limit) IN
          IF ~Exists(a) THEN Answer(p, r, "NotFound", {}, <<>>)
          ELSE Answer(p, r, "OK", {}, TransactionHistory(a, limit))

\* session.commit() raises: leaving the `with Session(engine)` block closes
\* the session, which rolls the pending statements back
OpsCommitFails(p) ==
    /\ impl = "AccountOperations" /\ procs[p].pc = "commit"
    /\ UNCHANGED <<appVars, impl, workers, status, calls>>
    /\ Reject(p, procs[p], "Error")

OpsStep(p) ==
    \/ OpsDepositRead(p)
    \/ OpsDepositCommit(p)
    \/ OpsWithdrawRead(p)
    \/ OpsWithdrawCommit(p)
    \/ OpsTransferReadFrom(p)
    \/ OpsTransferReadTo(p)
    \/ OpsTransferCommit(p)
    \/ OpsGetAccount(p)
    \/ OpsGetHistory(p)

\* -------------------------- Facade (one commit per subsystem component)
\* AccountValidator.validate_account_exists; the amount is not validated
FacadeDepositRead(p) ==
    /\ impl = "Facade" /\ Arrive(p)
    /\ \E a \in AccountIds, amt \in Amounts :
          LET r == Request("Deposit", None, a, amt) IN
          IF ~Exists(a) THEN Reject(p, r, "NotFound")
          ELSE Loaded(p, [r EXCEPT !.loadedTo = balance[a]], "add_funds")

\* validate_account_exists, then validate_sufficient_funds
FacadeWithdrawRead(p) ==
    /\ impl = "Facade" /\ Arrive(p)
    /\ \E a \in AccountIds, amt \in Amounts :
          LET r == Request("Withdraw", a, None, amt) IN
          IF ~Exists(a) THEN Reject(p, r, "NotFound")
          ELSE IF balance[a] < amt THEN Reject(p, r, "InsufficientFunds")
          ELSE Loaded(p, [r EXCEPT !.loadedFrom = balance[a]], "subtract_funds")

FacadeTransferReadFrom(p) ==
    /\ impl = "Facade" /\ Arrive(p)
    /\ \E a \in AccountIds, b \in AccountIds, amt \in Amounts :
          LET r == Request("Transfer", a, b, amt) IN
          IF ~Exists(a) THEN Reject(p, r, "NotFound")
          ELSE IF balance[a] < amt THEN Reject(p, r, "InsufficientFunds")
          ELSE Loaded(p, [r EXCEPT !.loadedFrom = balance[a]], "read_to")

\* a transfer that debits its source before it looks the destination up
FacadeTransferReadToDebited(p) ==
    LET r == procs[p] IN
    /\ impl = "Facade" /\ Continue(p, "read_to", "Transfer")
    /\ IF ~Exists(r.to)
       THEN /\ balance' = [balance EXCEPT ![r.from] = r.loadedFrom - r.amount]
            /\ UNCHANGED log
            /\ Return(p, r, "NotFound", {"debit"})
       ELSE Loaded(p, r, "subtract_funds")

\* validate_account_exists(dest): the balance this SELECT loads is expired
\* by the next commit before anything reads it
FacadeTransferReadTo(p) ==
    LET r == procs[p] IN
    /\ impl = "Facade" /\ Continue(p, "read_to", "Transfer")
    /\ IF ~Exists(r.to) THEN Reject(p, r, "NotFound")
       ELSE Loaded(p, r, "subtract_funds")

\* AccountUpdater.subtract_funds: balance -= amount; commit; refresh.  The
\* refreshed balance is not read again.  A withdrawal goes on to construct
\* its Transaction.
FacadeSubtractFunds(p) ==
    LET r == procs[p] IN
    /\ impl = "Facade" /\ r.pc = "subtract_funds"
    /\ UNCHANGED <<appVars, impl, workers, status, calls>>
    /\ balance' = Flush(balance, r.from, r.loadedFrom, r.loadedFrom - r.amount)
    /\ procs' = [procs EXCEPT ![p].effects = @ \cup Wrote("debit", r.loadedFrom, r.loadedFrom - r.amount),
                              ![p].loadedFrom = 0,
                              ![p].timestamp = IF r.op = "Transfer" THEN 0 ELSE clock,
                              ![p].pc = IF r.op = "Transfer" THEN "reload_to"
                                        ELSE "create_transaction"]
    /\ clock' = IF r.op = "Transfer" THEN clock ELSE clock + 1
    /\ returned' = {}
    /\ UNCHANGED <<log, completed>>

\* the commit expired every object of the session: db.refresh(source) and
\* the first use of dest.balance in add_funds read the rows again
FacadeReloadTo(p) ==
    LET r == procs[p] IN
    /\ impl = "Facade" /\ Continue(p, "reload_to", "Transfer")
    /\ Loaded(p, [r EXCEPT !.loadedTo = balance[r.to]], "add_funds")

\* AccountUpdater.add_funds: balance += amount; commit; refresh.  The
\* refreshed balance is not read again.  TransactionCreator then constructs
\* the Transaction.
FacadeAddFunds(p) ==
    LET r == procs[p] IN
    /\ impl = "Facade" /\ r.pc = "add_funds"
    /\ UNCHANGED <<appVars, impl, workers, status, calls>>
    /\ balance' = Flush(balance, r.to, r.loadedTo, r.loadedTo + r.amount)
    /\ procs' = [procs EXCEPT ![p].effects = @ \cup Wrote("credit", r.loadedTo, r.loadedTo + r.amount),
                              ![p].loadedTo = 0,
                              ![p].timestamp = clock,
                              ![p].pc = "create_transaction"]
    /\ clock' = clock + 1
    /\ returned' = {}
    /\ UNCHANGED <<log, completed>>

\* TransactionCreator.create_*_transaction: INSERT; commit.  The facade
\* schema keeps the account in account_id; it is shown here in the column
\* the transaction type gives it.
FacadeCreateTransaction(p) ==
    LET r == procs[p] IN
    /\ impl = "Facade" /\ r.pc = "create_transaction"
    /\ UNCHANGED <<appVars, impl, workers, status, calls>>
    /\ log' = Append(log, TransactionRecord(
                  CASE r.op = "Deposit" -> "DEPOSIT"
                    [] r.op = "Withdraw" -> "WITHDRAW"
                    [] OTHER -> "TRANSFER",
                  r.from, r.to, r.amount, r.timestamp))
    /\ UNCHANGED balance
    /\ Return(p, r, "OK", {"log"})

FacadeGetBalance(p) ==
    /\ impl = "Facade" /\ Arrive(p)
    /\ \E a \in AccountIds :
          LET r == Request("GetBalance", a, None, 0) IN
          IF ~Exists(a) THEN Answer(p, r, "NotFound", {}, <<>>)
          ELSE Answer(p, r, "OK", {balance[a]}, <<>>)

FacadeGetTransactions(p) ==
    /\ impl = "Facade" /\ Arrive(p)
    /\ \E a \in AccountIds :
          LET r == Request("GetHistory", a, None, 0) IN
          IF ~Exists(a) THEN Answer(p, r, "NotFound", {}, <<>>)
          ELSE Answer(p, r, "OK", {}, AccountTransactions(a))

\* db.commit() raises in AccountUpdater or TransactionCreator: the
\* exception leaves process_*; what earlier commits wrote stays written
FacadeCommitFails(p) ==
    /\ impl = "Facade"
    /\ procs[p].pc \in {"subtract_funds", "add_funds", "create_transaction"}
    /\ UNCHANGED <<appVars, impl, workers, status, calls>>
    /\ Reject(p, procs[p], "Error")

FacadeStep(p) ==
    \/ FacadeDepositRead(p)
    \/ FacadeWithdrawRead(p)
    \/ FacadeTransferReadFrom(p)
    \/ FacadeTransferReadTo(p)
    \/ FacadeSubtractFunds(p)
    \/ FacadeReloadTo(p)
    \/ FacadeAddFunds(p)
    \/ FacadeCreateTransaction(p)
    \/ FacadeGetBalance(p)
    \/ FacadeGetTransactions(p)

\* ------------------------- Commands and proxies behind solid_app/main.py
\* DepositRequest / WithdrawRequest / TransferRequest: amount > 0
ValidAmount(amt) == amt > 0

CmdDepositRead(p) ==
    /\ impl = "Commands" /\ Arrive(p)
    /\ \E a \in AccountIds, amt \in Amounts :
          LET r == Request("Deposit", None, a, amt) IN
          IF ~ValidAmount(amt) THEN Reject(p, r, "InvalidArgument")
          ELSE IF ~Exists(a) THEN Reject(p, r, "NotFound")
          ELSE Staged(p, [r EXCEPT !.loadedTo = balance[a]], "commit")

\* TransferCommand.execute has committed and refreshed the transaction only:
\* both accounts are expired, and the handler goes on to read the balance
Committed(p, effects) ==
    /\ procs' = [procs EXCEPT ![p].effects = @ \cup effects,
                              ![p].loadedFrom = 0,
                              ![p].loadedTo = 0,
                              ![p].pc = "get_balance"]
    /\ returned' = {}
    /\ UNCHANGED <<completed, clock>>

\* session.refresh(account) follows the commit; the SELECT of
\* AccountProxy.get_balance in the same session returns that object from the
\* identity map with the balance the refresh loaded
CmdDepositCommit(p) ==
    /\ impl = "Commands" /\ Continue(p, "commit", "Deposit")
    /\ DepositCommit(p)

CmdWithdrawRead(p) ==
    /\ impl = "Commands" /\ Arrive(p)
    /\ \E a \in AccountIds, amt \in Amounts :
          LET r == Request("Withdraw", a, None, amt) IN
          IF ~ValidAmount(amt) THEN Reject(p, r, "InvalidArgument")
          ELSE IF ~Exists(a) THEN Reject(p, r, "NotFound")
          ELSE IF balance[a] < amt THEN Reject(p, r, "InsufficientFunds")
          ELSE Staged(p, [r EXCEPT !.loadedFrom = balance[a]], "commit")

CmdWithdrawCommit(p) ==
    /\ impl = "Commands" /\ Continue(p, "commit", "Withdraw")
    /\ WithdrawCommit(p)

\* the funds check precedes the lookup of the destination
CmdTransferReadFrom(p) ==
    /\ impl = "Commands" /\ Arrive(p)
    /\ \E a \in AccountIds, b \in AccountIds, amt \in Amounts :
          LET r == Request("Transfer", a, b, amt) IN
          IF ~ValidAmount(amt) THEN Reject(p, r, "InvalidArgument")
          ELSE IF ~Exists(a) THEN Reject(p, r, "NotFound")
          ELSE IF balance[a] < amt THEN Reject(p, r, "InsufficientFunds")
          ELSE Loaded(p, [r EXCEPT !.loadedFrom = balance[a]], "read_to")

CmdTransferReadTo(p) ==
    LET r == procs[p] IN
    /\ impl = "Commands" /\ Continue(p, "read_to", "Transfer")
    /\ IF ~Exists(r.to) THEN Reject(p, r, "NotFound")
       ELSE Staged(p, [r EXCEPT !.loadedTo =
                          IF r.to = r.from THEN r.loadedFrom ELSE balance[r.to]],
                   "commit")

CmdTransferCommit(p) ==
    /\ impl = "Commands" /\ Continue(p, "commit", "Transfer")
    /\ TransferWrite(p)
    /\ Committed(p, TransferEffects(procs[p]))

\* PUT /accounts/{id}/balance -> AccountProxy -> RealAccount.update_balance;
\* BalanceUpdateRequest accepts any amount
UpdateBalanceRead(p) ==
    /\ impl = "Commands" /\ Arrive(p)
    /\ \E a \in AccountIds, amt \in Amounts :
          LET r == Request("UpdateBalance", None, a, amt) IN
          IF ~Exists(a) THEN Reject(p, r, "NotFound")
          ELSE Loaded(p, [r EXCEPT !.loadedTo = balance[a]], "commit")

\* a balance update that corrects the amount of the latest record
UpdateBalanceRewrites(p) ==
    LET r == procs[p] IN
    /\ impl = "Commands" /\ Continue(p, "commit", "UpdateBalance")
    /\ balance' = Flush(balance, r.to, r.loadedTo, r.loadedTo + r.amount)
    /\ log' = IF log = <<>> THEN log
              ELSE [log EXCEPT ![Len(log)].amount = @ + r.amount]
    /\ Respond(p, r, "OK", Wrote("credit", r.loadedTo, r.loadedTo + r.amount),
               {balance'[r.to]})

\* account.balance += amount; session.add(account); session.commit();
\* session.refresh(account); the handler's get_balance returns that balance
UpdateBalanceCommit(p) ==
    LET r == procs[p] IN
    /\ impl = "Commands" /\ Continue(p, "commit", "UpdateBalance")
    /\ balance' = Flush(balance, r.to, r.loadedTo, r.loadedTo + r.amount)
    /\ UNCHANGED log
    /\ Respond(p, r, "OK", Wrote("credit", r.loadedTo, r.loadedTo + r.amount),
               {balance'[r.to]})

\* transfer handler: AccountProxy(RealAccount()).get_balance(account_id,
\* session) loads the expired source row again, then the response
CmdGetBalance(p) ==
    LET r == procs[p] IN
    /\ impl = "Commands" /\ r.pc = "get_balance"
    /\ UNCHANGED <<appVars, impl, workers, status, calls, balance, log>>
    /\ Respond(p, r, "OK", {}, {balance[r.from]})

\* GET /accounts/{id}/balance -> AccountProxy -> RealAccount.get_balance
ProxyGetBalance(p) ==
    /\ impl = "Commands" /\ Arrive(p)
    /\ \E a \in AccountIds :
          LET r == Request("GetBalance", a, None, 0) IN
          IF ~Exists(a) THEN Answer(p, r, "NotFound", {}, <<>>)
          ELSE Answer(p, r, "OK", {balance[a]}, <<>>)

\* GET /accounts/{id}/transactions -> GetTransactionsCommand
CmdGetTransactions(p) ==
    /\ impl = "Commands" /\ Arrive(p)
    /\ \E a \in AccountIds :
          LET r == Request("GetHistory", a, None, 0) IN
          IF ~Exists(a) THEN Answer(p, r, "NotFound", {}, <<>>)
          ELSE Answer(p, r, "OK", {}, GetTransactions(a))

\* session.commit() raises in a command or in RealAccount.update_balance:
\* get_session closes the session, which rolls the pending statements back
CmdCommitFails(p) ==
    /\ impl = "Commands" /\ procs[p].pc = "commit"
    /\ UNCHANGED <<appVars, impl, workers, status, calls>>
    /\ Reject(p, procs[p], "Error")

CmdStep(p) ==
    \/ CmdDepositRead(p)
    \/ CmdDepositCommit(p)
    \/ CmdWithdrawRead(p)
    \/ CmdWithdrawCommit(p)
    \/ CmdTransferReadFrom(p)
    \/ CmdTransferReadTo(p)
    \/ CmdTransferCommit(p)
    \/ UpdateBalanceRead(p)
    \/ UpdateBalanceCommit(p)
    \/ CmdGetBalance(p)
    \/ ProxyGetBalance(p)
    \/ CmdGetTransactions(p)

Step(p) ==
    \/ OpsStep(p)
    \/ FacadeStep(p)
    \/ CmdStep(p)

Next == \E p \in Procs : Step(p)

Spec == Init /\ [][Next]_vars

\* one request at a time
SeqSpec == SeqInit /\ [][Next]_vars

\* the database refuses a commit (sqlite3 "database is locked", a lost
\* connection): session.commit() raises
CommitFails(p) ==
    \/ OpsCommitFails(p)
    \/ FacadeCommitFails(p)
    \/ CmdCommitFails(p)

FaultNext == \E p \in Procs : Step(p) \/ CommitFails(p)

\* one request at a time, on a database whose commits can fail
FaultSpec == SeqInit /\ [][FaultNext]_vars

\* transfers only, each request in flight scheduled again and again (every
\* request has a worker of its own, and no statement waits for another
\* request)
TransferStep(p) ==
    \/ OpsTransferReadFrom(p)
    \/ OpsTransferReadTo(p)
    \/ OpsTransferCommit(p)
    \/ FacadeTransferReadFrom(p)
    \/ FacadeTransferReadTo(p)
    \/ FacadeSubtractFunds(p)
    \/ FacadeReloadTo(p)
    \/ FacadeAddFunds(p)
    \/ FacadeCreateTransaction(p)
    \/ CmdTransferReadFrom(p)
    \/ CmdTransferReadTo(p)
    \/ CmdTransferCommit(p)
    \/ CmdGetBalance(p)

TransferNext == \E p \in Procs : TransferStep(p)

Running(p) == procs[p].pc # "idle" /\ TransferStep(p)

\* the database after a deposit of 1 into each account, so that either
\* account can be the source of a transfer
FundedInit ==
    /\ impl \in Impls
    /\ workers = Procs
    /\ status = CreatedStatus
    /\ balance = [a \in Accounts |-> OpeningBalance(impl)[a] + 1]
    /\ log = <<TransactionRecord("DEPOSIT", None, "A", 1, 0),
               TransactionRecord("DEPOSIT", None, "B", 1, 1)>>
    /\ clock = 2
    /\ procs = [p \in Procs |-> IdleProc]
    /\ calls = 0
    /\ completed = EmptyBag
    /\ returned = {}
    /\ ProcessStart

\* every operation, on the funded database
FundedSpec == FundedInit /\ [][Next]_vars

TransferSpec ==
    FundedInit /\ [][TransferNext]_vars /\ \A p \in Procs : WF_vars(Running(p))

\* =================================================== properties checked
\* the responses on record
Returned == BagToSet(completed) \cup returned

\* this step sends a response
Returns == \E p \in Procs : procs[p].pc # "idle" /\ procs'[p].pc = "idle"

\* sum of amount over the entries of bag B, each counted as often as it occurs
RECURSIVE SumAmounts(_)
SumAmounts(B) ==
    IF DOMAIN B = {} THEN 0
    ELSE LET e == CHOOSE x \in DOMAIN B : TRUE
         IN  e.amount * B[e] + SumAmounts([x \in DOMAIN B \ {e} |-> B[x]])

Matching(Cond(_)) == [e \in {x \in DOMAIN completed : Cond(x)} |-> completed[e]]

RECURSIVE Sum(_)
Sum(s) == IF s = <<>> THEN 0 ELSE Head(s) + Sum(Tail(s))

TotalBalance(bal) == bal["A"] + bal["B"]

Quiescent == \A p \in Procs : procs[p].pc = "idle"

LedgerOps == {"Deposit", "Withdraw", "Transfer"}

\* sum of the amounts of the calls of kind op that returned OK
CompletedAmount(op) ==
    LET Is(e) == e.op = op /\ e.result = "OK" IN SumAmounts(Matching(Is))

\* sum / number of the completed deposits into account a
DepositedInto(a) ==
    LET Is(e) == e.op = "Deposit" /\ e.to = a /\ e.result = "OK" IN SumAmounts(Matching(Is))

DepositsInto(a) ==
    LET Is(e) == e.op = "Deposit" /\ e.to = a /\ e.result = "OK" IN BagCardinality(Matching(Is))

DepositRecords(a) ==
    Cardinality({i \in DOMAIN log : log[i].type = "DEPOSIT" /\ log[i].to_account_id = a})

\* balance change of account a that the COMPLETED records of the log describe
LogDelta(a) ==
    Sum([i \in DOMAIN log |->
            IF log[i].status # "COMPLETED" THEN 0
            ELSE (IF log[i].to_account_id = a THEN log[i].amount ELSE 0)
               - (IF log[i].from_account_id = a THEN log[i].amount ELSE 0)])

\* accounts whose balance p has read and whose write p has not yet committed
ReadPending(p) ==
    LET r == procs[p] IN
    CASE r.pc \in {"commit"} -> {r.from, r.to} \cap Accounts
      [] r.pc \in {"read_to", "subtract_funds"} -> {r.from}
      [] r.pc = "add_funds" -> {r.to}
      [] OTHER -> {}

Touched(e) == {e.from, e.to} \cap Accounts

\* C1: at rest, after Deposit / Withdraw / Transfer calls only, the sum of
\* the balances is the opening sum plus the completed deposits minus the
\* completed withdrawals
C1_Conservation ==
    (Quiescent /\ \A e \in Returned : e.op \in LedgerOps)
    => TotalBalance(balance)
         = TotalBalance(OpeningBalance(impl)) + CompletedAmount("Deposit") - CompletedAmount("Withdraw")

\* C2: no committed state shows a Transfer(A, B, X), A # B, X > 0, with only
\* one of its two balance changes, or with both changes and no TRANSFER record
C2_TransferAtomic ==
    \A p \in Procs :
        LET r == procs[p] IN
        (r.op = "Transfer" /\ r.from # r.to /\ r.amount > 0)
        => /\ ("debit" \in r.effects) <=> ("credit" \in r.effects)
           /\ ("debit" \in r.effects /\ "credit" \in r.effects) => "log" \in r.effects

\* C3: when every call so far was a Deposit of a positive amount that
\* completed, each account holds its opening balance plus the deposits made
\* into it and the log holds one DEPOSIT record per deposit
C3_ConcurrentDeposits ==
    (Quiescent /\ \A e \in Returned : e.op = "Deposit" /\ e.result = "OK" /\ e.amount > 0)
    => \A a \in Accounts :
          /\ balance[a] = OpeningBalance(impl)[a] + DepositedInto(a)
          /\ DepositRecords(a) = DepositsInto(a)

\* C4: no two requests are at the same time between their read of one
\* account's balance and the commit of their write to it
C4_MutualExclusion ==
    \A p \in Procs, q \in Procs :
        p # q => ReadPending(p) \cap ReadPending(q) = {}

\* C5: every account's balance is at least the minimum balance of its type
C5_BalanceFloor ==
    \A a \in Accounts : balance[a] >= MinimumBalance(AccountTypeOf(impl)[a])

C7_NonPositiveRejected ==
    \A e \in Returned :
        (e.op \in LedgerOps /\ e.amount <= 0 /\ ({e.from, e.to} \ {None}) \subseteq Accounts)
        => (e.result # "OK" /\ e.effects = {})

\* C8: a Transfer whose source and destination are the same existing account
\* fails and commits nothing
C8_SameAccountRejected ==
    \A e \in Returned :
        (e.op = "Transfer" /\ e.from = e.to /\ Exists(e.from))
        => (e.result # "OK" /\ e.effects = {})

\* C9: a Deposit, Withdraw or Transfer that touches an account whose status
\* is not ACTIVE fails and commits nothing
C9_OnlyActiveMutate ==
    \A e \in Returned :
        (e.op \in LedgerOps /\ \E a \in Touched(e) : status[a] # "ACTIVE")
        => (e.result # "OK" /\ e.effects = {})

\* C10: every account's balance is its opening balance plus the changes the
\* COMPLETED records of the log describe
C10_LedgerMatchesLog ==
    \A a \in Accounts : balance[a] = OpeningBalance(impl)[a] + LogDelta(a)

\* C11: an operation that ends because a commit failed has left nothing
\* durable: no balance change is committed without its transaction record
C11_NoPartialCommit ==
    \A e \in returned :
        (e.op \in LedgerOps /\ e.result = "Error") => e.effects = {}

\* two transfers in flight in opposite directions between two accounts
Crossing ==
    /\ \A p \in Procs : procs[p].op = "Transfer" /\ procs[p].pc # "idle"
    /\ procs[1].from = procs[2].to /\ procs[1].to = procs[2].from
    /\ procs[1].from # procs[1].to

\* C12: when Transfer(A, B, x) and Transfer(B, A, y) are in flight together,
\* each of them eventually returns (completed or rejected)
C12_DeadlockFree ==
    \A p \in Procs : Crossing ~> (procs[p].pc = "idle")

\* both crossing transfers have read their source and are about to read, or
\* have read, their destination
C12_Witness ==
    /\ Crossing
    /\ \A p \in Procs : procs[p].pc = "read_to"

\* records i and j of the log name a common account
SameAccount(i, j) ==
    ({log[i].from_account_id, log[i].to_account_id}
        \cap {log[j].from_account_id, log[j].to_account_id}) \ {None} # {}

\* C13: for each account the timestamps of its records do not decrease in
\* the order the records were committed, and a record constructed in a step
\* is not earlier than any record that step could read
C13_TimestampOrder ==
    /\ [](\A i \in DOMAIN log, j \in DOMAIN log :
             (i < j /\ SameAccount(i, j)) => log[i].timestamp <= log[j].timestamp)
    /\ [][\A p \in Procs :
             (procs'[p].pc # "idle" /\ clock' # clock /\ procs'[p].timestamp = clock)
             => \A i \in DOMAIN log : log[i].timestamp <= procs'[p].timestamp]_vars

\* process p takes this step for a request of kind op with a positive amount
StepOf(p, op) ==
    /\ procs'[p] # procs[p]
    /\ procs[p].op = op
    /\ procs[p].amount > 0

\* C14: every step of a Transfer(A, B, x), A # B, x > 0, that changes a
\* balance or the log takes x from A, adds x to B, changes no other balance
\* and appends the one COMPLETED TRANSFER record from A to B of amount x,
\* and a Transfer that returns OK has done so
C14_TransferEffect ==
    /\ [][\A p \in Procs :
             (StepOf(p, "Transfer") /\ procs[p].from # procs[p].to
                /\ (balance' # balance \/ log' # log))
             => LET r == procs[p] IN
                /\ balance' = [balance EXCEPT ![r.from] = @ - r.amount,
                                               ![r.to] = @ + r.amount]
                /\ log' = Append(log, TransactionRecord("TRANSFER", r.from, r.to,
                                                        r.amount, r.timestamp))]_vars
    /\ [](\A e \in returned :
             (e.op = "Transfer" /\ e.result = "OK" /\ e.from # e.to /\ e.amount > 0)
             => e.effects = {"debit", "credit", "log"})

\* C15: every step of a Deposit(acc, x), x > 0, that changes a balance or
\* the log adds x to acc, changes no other balance and appends the one
\* COMPLETED DEPOSIT record of amount x to acc; a Deposit that returns OK
\* has done so and returns the balance of acc
C15_DepositEffect ==
    /\ [][\A p \in Procs :
             (StepOf(p, "Deposit") /\ (balance' # balance \/ log' # log))
             => LET r == procs[p] IN
                /\ balance' = [balance EXCEPT ![r.to] = @ + r.amount]
                /\ log' = Append(log, TransactionRecord("DEPOSIT", None, r.to,
                                                        r.amount, r.timestamp))]_vars
    /\ [](\A e \in returned :
             (e.op = "Deposit" /\ e.result = "OK" /\ e.amount > 0)
             => (e.effects = {"credit", "log"} /\ e.balance = {balance[e.to]}))

\* C16: every step of a Withdraw(acc, x), x > 0, that changes a balance or
\* the log takes x from acc and appends the one COMPLETED WITHDRAW record of
\* amount x from acc; a Withdraw that returns OK has done so, and a Withdraw
\* is refused for lack of funds only when x exceeds the balance
C16_WithdrawEffect ==
    /\ [][\A p \in Procs :
             (StepOf(p, "Withdraw") /\ (balance' # balance \/ log' # log))
             => LET r == procs[p] IN
                /\ balance' = [balance EXCEPT ![r.from] = @ - r.amount]
                /\ log' = Append(log, TransactionRecord("WITHDRAW", r.from, None,
                                                        r.amount, r.timestamp))]_vars
    /\ [](\A e \in returned :
             (e.op = "Withdraw" /\ e.amount > 0)
             => /\ e.result = "OK" => e.effects = {"debit", "log"}
                /\ e.result = "InsufficientFunds" => balance[e.from] < e.amount)

\* the request of response e names an account that does not exist
Unknown(e) == ({e.from, e.to} \ {None}) \ Accounts # {}

\* this step sends a response to a request that names an unknown account
RefusesUnknown ==
    /\ calls' # calls \/ Returns
    /\ \E e \in returned' : e.op \in LedgerOps /\ Unknown(e)

\* C17: a Deposit, Withdraw or Transfer that names an unknown account fails
\* with NotFound, has committed nothing, and its step changes no balance and
\* no record
C17_UnknownIsNotFound ==
    /\ [](\A e \in returned :
             (e.op \in LedgerOps /\ Unknown(e))
             => (e.result = "NotFound" /\ e.effects = {}))
    /\ [][RefusesUnknown => (balance' = balance /\ log' = log)]_vars

\* C17 as the code has it: the request fails and commits nothing; the error
\* is NotFound unless a check that comes before the lookup has refused the
\* request (the amount is not positive, or the source cannot cover it)
C17_UnknownIsRefused ==
    /\ [](\A e \in returned :
             (e.op \in LedgerOps /\ Unknown(e))
             => /\ e.result \in {"NotFound", "InvalidArgument", "InsufficientFunds"}
                /\ e.effects = {}
                /\ e.result = "InvalidArgument" => e.amount <= 0
                /\ e.result = "InsufficientFunds" =>
                      (e.op = "Transfer" /\ Exists(e.from) /\ ~Exists(e.to)))
    /\ [][RefusesUnknown => (balance' = balance /\ log' = log)]_vars

\* a transfer to an unknown account was refused after its source was read
C17_Witness ==
    \E e \in returned :
        /\ e.op = "Transfer" /\ Exists(e.from) /\ ~Exists(e.to)
        /\ e.result = "NotFound"
        /\ Len(log) > 0

\* C18: every step leaves the records already in the log as they are and in
\* place; the log changes only by records appended at its end
C18_LogAppendOnly ==
    [][/\ Len(log') >= Len(log)
       /\ SubSeq(log', 1, Len(log)) = log]_vars

\* with records in the log, a balance update, a query and a refused request
\* have run
C18_Witness ==
    /\ Len(log) >= 1
    /\ calls = MaxCalls
    /\ \E e \in returned : e.op \in {"UpdateBalance", "GetBalance", "GetHistory"}

ReadOps == {"GetBalance", "GetHistory"}

\* C19: the step of a GetBalance or GetHistory request, for an existing and
\* for an unknown account, changes no balance and no record of the log
C19_ReadsArePure ==
    [][(calls' # calls /\ \E e \in returned' : e.op \in ReadOps)
       => (balance' = balance /\ log' = log)]_vars

\* a history query answered with the records of an account
C19_Witness ==
    \E e \in returned :
        /\ e.op = "GetHistory" /\ e.result = "OK"
        /\ Len(e.transactions) > 0

\* C20: every record of the log has an amount greater than zero
C20_PositiveAmounts ==
    \A i \in DOMAIN log : log[i].amount > 0

\* the timestamps of the rows of a history, in the order returned
Ascending(rows) ==
    \A i \in DOMAIN rows, j \in DOMAIN rows :
        i < j => rows[i].timestamp <= rows[j].timestamp

\* C21: the rows a GetHistory request returns are in ascending order of
\* timestamp
C21_HistoryAscending ==
    \A e \in returned :
        (e.op = "GetHistory" /\ e.result = "OK") => Ascending(e.transactions)

\* sum of the amounts of the completed withdrawals and transfers out of a
DebitedFrom(a) ==
    LET Is(e) == e.op \in {"Withdraw", "Transfer"} /\ e.from = a /\ e.result = "OK"
    IN  SumAmounts(Matching(Is))

\* sum of the amounts of the completed transfers into a
CreditedTo(a) ==
    LET Is(e) == e.op = "Transfer" /\ e.to = a /\ e.result = "OK"
    IN  SumAmounts(Matching(Is))

\* every completed call was a Withdraw or a Transfer between two accounts,
\* of a positive amount
OnlyDebits ==
    \A e \in DOMAIN completed :
        e.op \in {"Withdraw", "Transfer"} /\ e.amount > 0 /\ e.from # e.to

\* C25: at rest, after withdrawals and transfers of positive amounts only,
\* no balance is negative and the debits completed on an account do not
\* exceed what it held at the start plus what was transferred into it
C25_NoOverdraft ==
    (Quiescent /\ OnlyDebits)
    => \A a \in Accounts :
          /\ balance[a] >= 0
          /\ DebitedFrom(a) <= (OpeningBalance(impl)[a] + 1) + CreditedTo(a)

\* the records of the log that have account a as source or destination
Touching(a) ==
    SelectSeq(log, LAMBDA t : t.from_account_id = a \/ t.to_account_id = a)

\* C26: the history a GetHistory request returns for an account holds
\* every record of the log that has the account as source or destination
C26_HistoryComplete ==
    \A e \in returned :
        (e.op = "GetHistory" /\ e.result = "OK")
        => \A i \in DOMAIN Touching(e.from) :
              \E j \in DOMAIN e.transactions : e.transactions[j] = Touching(e.from)[i]

\* C27: get_transaction_history(acc, limit) returns the limit newest
\* records that have acc as source or destination, newest first, each
\* record once
C27_HistoryTopLimit ==
    \A e \in returned :
        (impl = "AccountOperations" /\ e.op = "GetHistory" /\ e.result = "OK")
        => e.transactions = Limit(OrderBy(Touching(e.from), TRUE), e.amount)

\* ===================================== AccountProxy (solid_app/helpers/proxies.py)
\* Calls made on AccountProxy objects from one thread, each call from its
\* first statement to its return.

\* RealAccount.get_balance: account.balance if account else None
RealAccountGetBalance(a) == IF Exists(a) THEN balance[a] ELSE None

\* a RealAccount.update_balance that does not test the account it looked up
RealAccountUpdateBalanceUnchecked(a, amt) ==
    [value |-> TRUE,
     balance |-> IF Exists(a) THEN [balance EXCEPT ![a] = @ + amt] ELSE balance]

\* RealAccount.update_balance: its return value and the committed balances
\* after it.  Without the account it returns False before any write.
RealAccountUpdateBalance(a, amt) ==
    IF ~Exists(a) THEN [value |-> FALSE, balance |-> balance]
    ELSE [value |-> TRUE, balance |-> [balance EXCEPT ![a] = @ + amt]]

\* a proxy that logs the calls for the accounts it knows
LoggedKnownOnly(x, a, action) ==
    /\ calls < MaxCalls
    /\ calls' = calls + 1
    /\ access_log' = IF Exists(a)
                     THEN [access_log EXCEPT ![x] =
                              Append(@, [account_id |-> a, action |-> action,
                                         timestamp |-> clock])]
                     ELSE access_log
    /\ clock' = clock + 1

\* self.access_log.append({account_id, action, timestamp: datetime.now()})
Logged(x, a, action) ==
    /\ calls < MaxCalls
    /\ calls' = calls + 1
    /\ access_log' = [access_log EXCEPT ![x] =
                         Append(@, [account_id |-> a, action |-> action,
                                    timestamp |-> clock])]
    /\ clock' = clock + 1

\* what a call on proxy x returned
ProxyReturn(x, action, a, amt, value) ==
    /\ returned' = {[op |-> action, proxy |-> x, account_id |-> a, amount |-> amt,
                     value |-> value]}
    /\ UNCHANGED <<impl, workers, status, log, procs, completed,
                   instance, objects, active_sessions, sessions, issued>>

\* AccountProxy.get_balance
AccountProxyGetBalance(x) ==
    \E a \in AccountIds :
        /\ Logged(x, a, "get_balance")
        /\ UNCHANGED balance
        /\ ProxyReturn(x, "get_balance", a, 0, RealAccountGetBalance(a))

\* AccountProxy.update_balance
AccountProxyUpdateBalance(x) ==
    \E a \in AccountIds, amt \in Amounts :
        /\ Logged(x, a, "update_balance")
        /\ balance' = RealAccountUpdateBalance(a, amt).balance
        /\ ProxyReturn(x, "update_balance", a, amt, RealAccountUpdateBalance(a, amt).value)

\* the solid_app database, and proxies that have not been called
ProxyInit == Database /\ impl = "Commands" /\ workers = {1} /\ status = CreatedStatus

ProxyNext ==
    \E x \in Proxies :
        \/ AccountProxyGetBalance(x)
        \/ AccountProxyUpdateBalance(x)

ProxySpec == ProxyInit /\ [][ProxyNext]_vars

RECURSIVE SumLen(_, _)
SumLen(f, S) ==
    IF S = {} THEN 0
    ELSE LET x == CHOOSE y \in S : TRUE IN Len(f[x]) + SumLen(f, S \ {x})

\* C22: every call through a proxy appends one entry (account id, action,
\* timestamp) for that call at the end of that proxy's access_log and
\* leaves the entries already there and the logs of other proxies as they
\* are, for known and for unknown accounts; after k calls the logs hold k
\* entries; a get_balance returns what RealAccount.get_balance returns and
\* an update_balance returns whether the account exists
C22_AccessLog ==
    /\ [](SumLen(access_log, Proxies) = calls)
    /\ [][\A e \in returned' :
             calls' # calls
             => /\ access_log' =
                      [access_log EXCEPT ![e.proxy] =
                          Append(@, [account_id |-> e.account_id, action |-> e.op,
                                     timestamp |-> clock])]
                /\ e.op = "get_balance" =>
                      e.value = IF e.account_id \in Accounts
                                THEN balance[e.account_id] ELSE None
                /\ e.op = "update_balance" => e.value = (e.account_id \in Accounts)]_vars

\* one proxy was called twice, the second time for an unknown account
C22_Witness ==
    \E x \in Proxies :
        /\ Len(access_log[x]) = 2
        /\ access_log[x][1].action = "update_balance"
        /\ access_log[x][2].action = "get_balance"
        /\ access_log[x][2].account_id = "X"
        /\ access_log[x][1].timestamp < access_log[x][2].timestamp

\* C23: update_balance(acc, amount) on an existing account returns True and
\* leaves acc at its balance plus amount, every other balance and the log
\* as they were; on an unknown account it returns False and changes no
\* balance and no record
C23_UpdateBalance ==
    [][\A e \in returned' :
          (calls' # calls /\ e.op = "update_balance")
          => /\ log' = log
             /\ IF e.account_id \in Accounts
                THEN /\ e.value = TRUE
                     /\ balance' = [balance EXCEPT ![e.account_id] = @ + e.amount]
                ELSE /\ e.value = FALSE
                     /\ balance' = balance]_vars

\* an update of an unknown account was refused after an update of an
\* existing one went through
C23_Witness ==
    /\ balance # OpeningBalance(impl)
    /\ \E e \in returned :
          e.op = "update_balance" /\ e.account_id = "X" /\ e.value = FALSE

\* ============================= Singleton (no_solid_app/helpers/singleton.py)
\* cls._instance: the attribute of cls itself or, without one, that of the
\* base class Singleton; 0 stands for None
ClassInstance(cls) ==
    IF cls \in DOMAIN instance THEN instance[cls]
    ELSE IF "Singleton" \in DOMAIN instance THEN instance["Singleton"]
    ELSE 0

\* an __init__ that does not look at _initialized
InitializesAlways(o) == TRUE

\* Singleton.__init__: if not self._initialized
Initializes(o) == ~o._initialized

\* AuthenticationManager._initialize: self.active_sessions = {}
Initialize(cls, d) == IF cls = "AuthenticationManager" THEN EmptyDict ELSE d

\* cls(): Singleton.__new__ followed by Singleton.__init__
Instantiate(cls) ==
    LET made == ClassInstance(cls) = 0
        obj == IF made THEN Len(objects) + 1 ELSE ClassInstance(cls)
        afterNew == IF made
                    THEN Append(objects, [class |-> cls, _initialized |-> FALSE,
                                          initialized |-> 0])
                    ELSE objects
        o == afterNew[obj]
    IN  /\ instance' = IF made THEN Put(instance, cls, obj) ELSE instance
        /\ IF Initializes(o)
           THEN /\ objects' = [afterNew EXCEPT ![obj] =
                                  [@ EXCEPT !._initialized = TRUE,
                                            !.initialized = IF @ = 0 THEN 1 ELSE 2]]
                /\ active_sessions' = Initialize(o.class, active_sessions)
           ELSE /\ objects' = afterNew
                /\ UNCHANGED active_sessions
        /\ returned' = {[op |-> "instantiate", class |-> cls, object |-> obj,
                         created |-> made]}
        /\ UNCHANGED <<impl, workers, status, balance, log, procs, calls, completed,
                       clock, access_log, sessions, issued>>

\* the users of the User table
Registered(username) == username \in Usernames

\* AuthenticationManager.authenticate_user: None for an unknown user or a
\* wrong password; otherwise a fresh uuid4 is stored in active_sessions and
\* in a new SessionModel row, and returned
AuthenticateUser ==
    /\ "AuthenticationManager" \in DOMAIN instance
    /\ \E username \in UsernameInputs, passwordOk \in BOOLEAN :
          IF ~Registered(username) \/ ~passwordOk
          THEN /\ returned' = {[op |-> "authenticate_user", username |-> username,
                                session_id |-> 0, value |-> FALSE]}
               /\ UNCHANGED <<active_sessions, sessions, issued>>
          ELSE /\ Len(issued) < MaxLogins
               /\ LET session_id == Len(issued) + 1
                  IN  /\ active_sessions' = Put(active_sessions, username, session_id)
                      /\ sessions' = sessions \cup
                             {[username |-> username, session_id |-> session_id]}
                      /\ issued' = Append(issued, [username |-> username,
                                                   session_id |-> session_id])
                      /\ returned' = {[op |-> "authenticate_user",
                                       username |-> username,
                                       session_id |-> session_id, value |-> TRUE]}
    /\ UNCHANGED <<impl, workers, status, balance, log, procs, calls, completed,
                   clock, access_log, instance, objects>>

\* AuthenticationManager.is_authenticated(username, session_id, db)
IsAuthenticated ==
    /\ "AuthenticationManager" \in DOMAIN instance
    /\ \E username \in UsernameInputs, session_id \in 0 .. MaxLogins, db \in BOOLEAN :
          LET inMemory == /\ username \in DOMAIN active_sessions
                          /\ active_sessions[username] = session_id
              row == [username |-> username, session_id |-> session_id]
          IN  /\ active_sessions' =
                    IF ~inMemory /\ db /\ row \in sessions
                    THEN Put(active_sessions, username, session_id)
                    ELSE active_sessions
              /\ returned' = {[op |-> "is_authenticated", username |-> username,
                               session_id |-> session_id,
                               value |-> (inMemory \/ (db /\ row \in sessions))]}
    /\ UNCHANGED <<impl, workers, status, balance, log, procs, calls, completed,
                   clock, access_log, instance, objects, sessions, issued>>

\* the no_solid_app database, and the classes defined but not instantiated
SingletonInit == Database /\ impl = "Facade" /\ workers = {1} /\ status = CreatedStatus

SingletonNext ==
    \/ \E cls \in Classes : Instantiate(cls)
    \/ AuthenticateUser
    \/ IsAuthenticated

SingletonSpec == SingletonInit /\ [][SingletonNext]_vars

\* C24: every instantiation of a class returns an object of that class; once
\* the class has its instance, a later instantiation returns that same
\* object and changes neither the objects nor active_sessions; two classes
\* never hold the same object, and _initialize has run at most once on each
\* object
C24_SingletonIdentity ==
    /\ [](/\ \A c1, c2 \in DOMAIN instance : c1 # c2 => instance[c1] # instance[c2]
          /\ \A c \in DOMAIN instance : objects[instance[c]].class = c
          /\ \A i \in DOMAIN objects : objects[i].initialized <= 1)
    /\ [][\A e \in returned' :
             e.op = "instantiate"
             => /\ e.class \in DOMAIN instance' /\ instance'[e.class] = e.object
                /\ e.class \in DOMAIN instance
                      => /\ e.object = instance[e.class]
                         /\ objects' = objects
                         /\ active_sessions' = active_sessions]_vars

\* all four classes have their instance, a session is active, and
\* AuthenticationManager() has just returned the existing object
C24_Witness ==
    /\ DOMAIN instance = Classes
    /\ DOMAIN active_sessions # {}
    /\ \E e \in returned :
          e.op = "instantiate" /\ e.class = "AuthenticationManager" /\ ~e.created

\* C29: is_authenticated(username, id, db) answers True only for the id of
\* the latest successful authenticate_user of that username
C29_SingleLiveSession ==
    \A e \in returned :
        (e.op = "is_authenticated" /\ e.value)
        => \E i \in DOMAIN issued :
              /\ issued[i] = [username |-> e.username, session_id |-> e.session_id]
              /\ \A j \in DOMAIN issued : j > i => issued[j].username # e.username

\* C29, second part: is_authenticated answers True only for a username the
\* id was issued to
C29_IssuedToUser ==
    \A e \in returned :
        (e.op = "is_authenticated" /\ e.value)
        => \E i \in DOMAIN issued :
              issued[i] = [username |-> e.username, session_id |-> e.session_id]

\* ================= in-memory sessions (no_solid_app/helpers/auth_manager.py)
\* The methods of AuthenticationManager on an object whose __init__ has run.
\* Here active_sessions[username] is the dict {session_id, expires}, clock
\* is datetime.now() in hours, and issued keeps for every successful login
\* its username, session id, hour, and whether logout was called for the
\* username afterwards.

\* timedelta(hours=24)
SessionLifetime == 24

\* an is_authenticated that does not look at "expires"
ExpiredNever(session_data, now) == FALSE

\* session_data["expires"] < datetime.now()
Expired(session_data, now) == session_data.expires < now

\* time passes: half a session lifetime
Tick ==
    /\ clock < MaxTicks * (SessionLifetime \div 2)
    /\ clock' = clock + SessionLifetime \div 2
    /\ UNCHANGED <<impl, workers, status, balance, log, procs, calls, completed,
                   returned, appVars>>

\* AuthenticationManager.authenticate_user: the password is not verified
AuthManagerAuthenticateUser ==
    /\ \E username \in UsernameInputs :
          IF ~Registered(username)
          THEN /\ returned' = {[op |-> "authenticate_user", username |-> username,
                                session_id |-> 0, at |-> clock, value |-> FALSE]}
               /\ UNCHANGED <<active_sessions, issued>>
          ELSE /\ Len(issued) < MaxLogins
               /\ LET session_id == Len(issued) + 1
                  IN  /\ active_sessions' =
                            Put(active_sessions, username,
                                [session_id |-> session_id,
                                 expires |-> clock + SessionLifetime])
                      /\ issued' = Append(issued, [username |-> username,
                                                   session_id |-> session_id,
                                                   at |-> clock, logged_out |-> FALSE])
                      /\ returned' = {[op |-> "authenticate_user",
                                       username |-> username, session_id |-> session_id,
                                       at |-> clock, value |-> TRUE]}
    /\ UNCHANGED <<impl, workers, status, balance, log, procs, calls, completed,
                   clock, access_log, instance, objects, sessions>>

\* AuthenticationManager.is_authenticated(username, session_id)
AuthManagerIsAuthenticated ==
    /\ \E username \in UsernameInputs, session_id \in 0 .. MaxLogins :
          LET known == username \in DOMAIN active_sessions
              matches == known /\ active_sessions[username].session_id = session_id
              expired == matches /\ Expired(active_sessions[username], clock)
          IN  /\ active_sessions' = IF expired THEN Del(active_sessions, username)
                                    ELSE active_sessions
              /\ returned' = {[op |-> "is_authenticated", username |-> username,
                               session_id |-> session_id, at |-> clock,
                               value |-> (matches /\ ~expired)]}
    /\ UNCHANGED <<impl, workers, status, balance, log, procs, calls, completed,
                   clock, access_log, instance, objects, sessions, issued>>

\* AuthenticationManager.logout(username)
AuthManagerLogout ==
    /\ \E username \in UsernameInputs :
          /\ active_sessions' = IF username \in DOMAIN active_sessions
                                THEN Del(active_sessions, username)
                                ELSE active_sessions
          /\ issued' = [i \in DOMAIN issued |->
                           IF issued[i].username = username
                           THEN [issued[i] EXCEPT !.logged_out = TRUE]
                           ELSE issued[i]]
          /\ returned' = {[op |-> "logout", username |-> username, session_id |-> 0,
                           at |-> clock, value |-> (username \in DOMAIN active_sessions)]}
    /\ UNCHANGED <<impl, workers, status, balance, log, procs, calls, completed,
                   clock, access_log, instance, objects, sessions>>

\* the manager after __init__: no session
SessionInit ==
    Database /\ impl = "AccountOperations" /\ workers = {1} /\ status = CreatedStatus

SessionNext ==
    \/ Tick
    \/ AuthManagerAuthenticateUser
    \/ AuthManagerIsAuthenticated
    \/ AuthManagerLogout

SessionSpec == SessionInit /\ [][SessionNext]_vars

\* the login that gave username the session id, when it is the latest
\* successful login of username
LatestLogin(username, session_id) ==
    {i \in DOMAIN issued :
        /\ issued[i].username = username
        /\ issued[i].session_id = session_id
        /\ \A j \in DOMAIN issued : j > i => issued[j].username # username}

\* C28: is_authenticated(u, s) answers True only when s comes from the
\* latest successful login of u, logout(u) was not called since, and no
\* more than 24 hours have passed since that login; when it answers False
\* for such an s because the time is over, u has no stored session left;
\* logout(u) answers True exactly when u had a stored session, and leaves
\* none
C28_SessionValidity ==
    /\ [](\A e \in returned :
            e.op = "is_authenticated"
            => /\ e.value =>
                     \E i \in LatestLogin(e.username, e.session_id) :
                         /\ ~issued[i].logged_out
                         /\ e.at <= issued[i].at + SessionLifetime
               /\ ~e.value =>
                     \A i \in LatestLogin(e.username, e.session_id) :
                         ~issued[i].logged_out
                         => e.username \notin DOMAIN active_sessions)
    /\ [][\A e \in returned' :
             (e.op = "logout" /\ <<returned, active_sessions>>' # <<returned, active_sessions>>)
             => /\ e.value = (e.username \in DOMAIN active_sessions)
                /\ e.username \notin DOMAIN active_sessions']_vars

\* a check of the latest session id of a user who did not log out answered
\* False because more than 24 hours had passed, and the session is gone
C28_Witness ==
    \E e \in returned :
        /\ e.op = "is_authenticated" /\ ~e.value
        /\ \E i \in LatestLogin(e.username, e.session_id) :
              /\ ~issued[i].logged_out
              /\ e.at > issued[i].at + SessionLifetime
        /\ e.username \notin DOMAIN active_sessions
====
